---- MODULE Spec2Model ----
(***************************************************************************)
(* A model of the agent orchestration code of agentic-ai-playground:       *)
(*   - AgentsSDKPlaybook.py: the handoff loop of main() around the         *)
(*     translation cohort (triage agent and three specialists);            *)
(*   - automotive_multi-agent.py: the workflow data model, the domain      *)
(*     tools, the plan builder analyze_multi_domain_request and the agent  *)
(*     run of execute_multi_domain_workflow.                               *)
(* One behaviour runs one of the two programs (variable prog).             *)
(* The language model and the agents SDK are outside the repository: the   *)
(* model takes every answer they can give (which agent a run ends at, what *)
(* it outputs, which tool it calls with which arguments).                  *)
(***************************************************************************)
EXTENDS Integers, Sequences, FiniteSets, TLC

VARIABLES
    prog,          \* which program this behaviour runs: "playbook" | "automotive"
    handoffs,      \* per agent of the program's cohort, its handoffs list (as a set)
    \* ---- AgentsSDKPlaybook.main ----
    pc,            \* position in main: "run" | "check" | "cap" | "prompt" | "done" | "crashed"
    msg,           \* msg, the user message of the current exchange
    inputs,        \* inputs, the conversation history handed to Runner.run
    agent,         \* agent, the agent the next Runner.run starts at
    final_output,  \* result.final_output of the last run
    printed,       \* the line with which the inner loop announced its break ("none": no break yet)
    invocations,   \* number of Runner.run calls of the current exchange (observer, not program state)
    handoffPath,   \* the agents the run that has just returned went through, in order; empty once
                   \* main has looked at the result (observer, not program state)
    \* ---- automotive_multi-agent ----
    wfPc,          \* "start" | "analyzed" | "constructed" | "running" | "final" | "raised"
    query,         \* the request text
    plan,          \* the WorkflowPlan built or constructed (NoPlan: none yet)
    raised,        \* the exception the last operation raised ("none": it returned)
    wfAgent,       \* the agent the run of execute_multi_domain_workflow is at
    wfTurns,       \* turns the run has used
    invoked,       \* per domain tool, the response of its last call (NoResponse: never called)
    results,       \* the WorkflowResult objects recorded
    payArgs,       \* amount and customer_email of the last create_payment_link call (observer)
    tPc,           \* where analyze_stock_from_query stands ("off": trading_agent.py is not the program run)
    user_query,    \* the query given to the trading agent
    parsed,        \* the (symbol, exchange) parse_symbol_from_query returned
    authResult,    \* what _get_user_profile returned ("pending": not yet; "none": it is not run)
    attempt,       \* the loop variable of _get_user_profile
    output,        \* str(result.final_output) of the last profile run (<<>>: none, or it raised)
    profileRuns,   \* profile runs started by _get_user_profile (observer)
    logins,        \* login runs started in the current attempt (observer)
    now,           \* the wall clock, in ticks of 30 seconds
    end_time,      \* end_time of stream_stock_quotes, in the same ticks
    quote_count,   \* quote_count of stream_stock_quotes
    price_history, \* self.price_history[symbol]
    retrievals     \* get_stock_quote calls started by stream_stock_quotes (observer)

playbookVars == <<pc, msg, inputs, agent, final_output, printed, invocations, handoffPath>>
autoVars == <<wfPc, query, plan, raised, wfAgent, wfTurns, invoked, results, payArgs>>
authVars == <<authResult, attempt, output, profileRuns, logins>>
streamVars == <<now, end_time, quote_count, price_history, retrievals>>
tradingVars == <<tPc, user_query, parsed, authVars, streamVars>>
vars == <<prog, handoffs, playbookVars, autoVars, tradingVars>>

----------------------------------------------------------------------------
(* Bounds of the model *)

\* at most this many items does one Runner.run add to the history
MaxNewItems == 2

----------------------------------------------------------------------------
(* AgentsSDKPlaybook.py: agents and structured outputs *)

Specialists == {"french_agent", "spanish_agent", "german_agent"}
Agents == {"triage_agent"} \cup Specialists

\* every agent handed every other agent
Handoffs_FullMesh(a) == Agents \ {a}

\* create_agents: the handoff lists after the wiring pass
Handoffs(a) == IF a = "triage_agent" THEN Specialists ELSE {"triage_agent"}

\* TriageDecision.action
TriageActions == {"handoff_to_french", "handoff_to_spanish", "handoff_to_german", "complete"}

TriageDecision(a) == [type |-> "TriageDecision", action |-> a]

\* A final output that is no TriageDecision (the else branch of main), one whose
\* inspection raises (the except branch of main), and a specialist's plain text.
UnexpectedOutput == [type |-> "str", action |-> "n/a"]
FaultyOutput == [type |-> "raises", action |-> "n/a"]
PlainText == [type |-> "text", action |-> "n/a"]
NoOutput == [type |-> "none", action |-> "n/a"]

\* What a run that ends at agent a can hand back as result.final_output.
FinalOutputs(a) ==
    IF a = "triage_agent"
    THEN {TriageDecision(x) : x \in TriageActions} \cup {UnexpectedOutput, FaultyOutput}
    ELSE {PlainText}

\* The agents a run started at agent a can end at: a itself or any agent it
\* reaches through handoffs (triage <-> specialists: every agent).
RECURSIVE ReachFrom(_, _)
ReachFrom(S, n) ==
    IF n = 0 THEN S ELSE ReachFrom(S \cup UNION {Handoffs(a) : a \in S}, n - 1)
LastAgents(a) == ReachFrom({a}, Cardinality(Agents))

\* at most this many handoffs does one run make
MaxRunHandoffs == 3

\* The ways a run started at agent a can go under the wiring w: a itself, then
\* at each handoff one agent of the handoffs list of the agent before, at most n
\* handoffs in all (one handoff per response of an agent).
RECURSIVE RunPaths(_, _, _)
RunPaths(w, a, n) ==
    IF n = 0 THEN {<<a>>}
    ELSE {<<a>>} \cup {<<a>> \o p : p \in UNION {RunPaths(w, b, n - 1) : b \in w[a]}}

UserMessages == {"translate hello", "translate bye"}

UserItem(m) == [role |-> "user", content |-> m]
OutputItem == [role |-> "assistant", content |-> "output"]

\* the n items a run adds to the history; a run that returns has produced at
\* least the item of its final output, so n >= 1
NewItems(n) == [i \in 1..n |-> OutputItem]

\* the limit set higher than the 20 the exchange is meant to stay within
IterationLimit_Raised == 20 + 5

\* the length limit of the safety check
IterationLimit == 20

\* the lines main prints before a break
MsgCompleted == "Translation workflow completed!"
MsgUnexpected == "Unexpected triage response type"
MsgError == "Error parsing triage decision"
\* the completion line pasted into the safety check
MsgTooMany_CopyPaste == "Translation workflow completed!"
MsgTooMany == "Too many iterations, breaking to prevent infinite loop"

\* isinstance(triage_response, TriageDecision)
IsTriageDecision(out) == out.type = "TriageDecision"

\* a slip in the literal the action is compared with
IsComplete_WrongLiteral(out) == out.action = "completed"

\* triage_response.action == "complete"
IsComplete(out) == out.action = "complete"

\* the limit compared one too high
OverLimit_OffByOne(h) == Len(h) > IterationLimit + 1

\* len(inputs) > 20
OverLimit(h) == Len(h) > IterationLimit

\* agent = result.last_agent
NextAgent(last) == last

\* a history that holds the new items of the run only
ToInputList_DropsInput(h, n) == NewItems(n)

\* inputs = result.to_input_list(): the input of the run followed by its new items
ToInputList(h, n) == h \o NewItems(n)

----------------------------------------------------------------------------
(* AgentsSDKPlaybook.main *)

InitPlaybook ==
    /\ pc = "run"
    /\ msg \in UserMessages
    /\ inputs = <<UserItem(msg)>>
    /\ agent = "triage_agent"
    /\ final_output = NoOutput
    /\ printed = "none"
    /\ invocations = 0
    /\ handoffPath = <<>>

\* result = await Runner.run(agent, input=inputs); inputs = result.to_input_list();
\* agent = result.last_agent
RunAgent ==
    /\ prog = "playbook" /\ pc = "run"
    /\ \E last \in LastAgents(agent), n \in 1..MaxNewItems :
         /\ \E path \in RunPaths(handoffs, agent, MaxRunHandoffs) :
              /\ path[Len(path)] = last
              /\ handoffPath' = path
         /\ \E out \in FinalOutputs(last) : final_output' = out
         /\ inputs' = ToInputList(inputs, n)
         /\ agent' = NextAgent(last)
    /\ invocations' = invocations + 1
    /\ pc' = "check"
    /\ UNCHANGED <<autoVars, tradingVars, prog, handoffs, msg, printed>>

\* Runner.run raises (MaxTurnsExceeded, a model or network error): nothing in main
\* catches it, the exception leaves main.
RunnerRaises ==
    /\ prog = "playbook" /\ pc = "run"
    /\ invocations' = invocations + 1
    /\ pc' = "crashed"
    /\ UNCHANGED <<autoVars, tradingVars, prog, handoffs, handoffPath, msg, inputs, agent, final_output, printed>>

\* the fallback branches print their line but do not break
CheckTriage_NoFallbackBreak ==
    /\ prog = "playbook" /\ pc = "check"
    /\ IF agent = "triage_agent"
       THEN IF final_output = FaultyOutput
            THEN /\ printed' = MsgError
                 /\ pc' = "cap"
            ELSE IF IsTriageDecision(final_output)
                 THEN IF IsComplete(final_output)
                      THEN /\ printed' = MsgCompleted
                           /\ pc' = "prompt"
                      ELSE /\ pc' = "cap"
                           /\ UNCHANGED printed
                 ELSE /\ printed' = MsgUnexpected
                      /\ pc' = "cap"
       ELSE /\ pc' = "cap"
            /\ UNCHANGED printed
    /\ handoffPath' = <<>>
    /\ UNCHANGED <<autoVars, tradingVars, prog, handoffs, msg, inputs, agent, final_output, invocations>>

\* if agent == triage_agent: try: ... except: ...
CheckTriage ==
    /\ prog = "playbook" /\ pc = "check"
    /\ IF agent = "triage_agent"
       THEN IF final_output = FaultyOutput
            THEN /\ printed' = MsgError
                 /\ pc' = "prompt"
            ELSE IF IsTriageDecision(final_output)
                 THEN IF IsComplete(final_output)
                      THEN /\ printed' = MsgCompleted
                           /\ pc' = "prompt"
                      ELSE /\ pc' = "cap"
                           /\ UNCHANGED printed
                 ELSE /\ printed' = MsgUnexpected
                      /\ pc' = "prompt"
       ELSE /\ pc' = "cap"
            /\ UNCHANGED printed
    /\ handoffPath' = <<>>
    /\ UNCHANGED <<autoVars, tradingVars, prog, handoffs, msg, inputs, agent, final_output, invocations>>

\* the length is only looked at when the run ended at the triage agent
SafetyCheck_TriageOnly ==
    /\ prog = "playbook" /\ pc = "cap"
    /\ IF agent = "triage_agent" /\ OverLimit(inputs)
       THEN /\ printed' = MsgTooMany
            /\ pc' = "prompt"
       ELSE /\ pc' = "run"
            /\ UNCHANGED printed
    /\ UNCHANGED <<autoVars, tradingVars, prog, handoffs, handoffPath, msg, inputs, agent, final_output, invocations>>

\* if len(inputs) > 20: print(...); break
SafetyCheck ==
    /\ prog = "playbook" /\ pc = "cap"
    /\ IF OverLimit(inputs)
       THEN /\ printed' = MsgTooMany
            /\ pc' = "prompt"
       ELSE /\ pc' = "run"
            /\ UNCHANGED printed
    /\ UNCHANGED <<autoVars, tradingVars, prog, handoffs, handoffPath, msg, inputs, agent, final_output, invocations>>

\* user_msg = input(...); msg = user_msg; agent = triage_agent;
\* inputs = [{"content": msg, "role": "user"}]
NextMessage ==
    /\ prog = "playbook" /\ pc = "prompt"
    /\ \E m \in UserMessages :
         /\ msg' = m
         /\ inputs' = <<UserItem(m)>>
    /\ agent' = "triage_agent"
    /\ printed' = "none"
    /\ invocations' = 0
    /\ handoffPath' = <<>>
    /\ pc' = "run"
    /\ UNCHANGED <<autoVars, tradingVars, prog, handoffs, final_output>>

\* user_msg.lower() in ['quit', 'exit', 'bye']: break
Quit ==
    /\ prog = "playbook" /\ pc = "prompt"
    /\ pc' = "done"
    /\ UNCHANGED <<autoVars, tradingVars, prog, handoffs, handoffPath, msg, inputs, agent, final_output, printed, invocations>>


----------------------------------------------------------------------------
(* Strings: a Python str is the sequence of its characters *)

UpperCase == <<"A", "B", "C", "D", "E", "F", "G", "H", "I", "J", "K", "L", "M", "N", "O", "P", "Q",
      "R", "S", "T", "U", "V", "W", "X", "Y", "Z">>
LowerCase == <<"a", "b", "c", "d", "e", "f", "g", "h", "i", "j", "k", "l", "m", "n", "o", "p", "q",
      "r", "s", "t", "u", "v", "w", "x", "y", "z">>

\* str.lower() forgotten: the text is compared as typed
LowerChar_Identity(c) == c

\* str.lower(), one character
LowerChar(c) ==
    IF \E i \in 1..Len(UpperCase) : UpperCase[i] = c
    THEN LowerCase[CHOOSE i \in 1..Len(UpperCase) : UpperCase[i] = c]
    ELSE c

\* str.lower()
Lower(s) == [i \in 1..Len(s) |-> LowerChar(s[i])]

\* needle in hay
Contains(needle, hay) ==
    \E i \in 0..(Len(hay) - Len(needle)) : SubSeq(hay, i + 1, i + Len(needle)) = needle

StrAddPart == <<"a", "d", "d", " ", "p", "a", "r", "t">>
StrPaymentLink == <<"p", "a", "y", "m", "e", "n", "t", " ", "l", "i", "n", "k">>

\* the query of the builder's example, and the one main passes
QueryAddAndPay ==
    <<"A", "d", "d", " ", "p", "a", "r", "t", " ", "P", "A", "R", "T", "_", "0", "0", "1",
      " ", "t", "o", " ", "R", "O", "_", "0", "0", "1", " ", "a", "n", "d", " ", "s",
      "e", "n", "d", " ", "a", " ", "p", "a", "y", "m", "e", "n", "t", " ", "l", "i",
      "n", "k", " ", "o", "f", " ", "1", "0", "0", " ", "t", "o", " ", "a", "@", "b",
      ".", "c", "o", "m">>
ComplexQuery ==
    <<"A", "d", "d", " ", "p", "a", "r", "t", "N", "u", "m", "b", "e", "r", " ", "P", "A",
      "R", "T", "_", "0", "0", "1", " ", "t", "o", " ", "R", "e", "p", "a", "i", "r",
      " ", "o", "r", "d", "e", "r", " ", "n", "u", "m", "b", "e", "r", " ", "R", "O",
      "_", "0", "0", "1", ",", " ", "a", "n", "d", " ", "s", "e", "n", "d", " ", "p",
      "a", "y", "m", "e", "n", "t", " ", "l", "i", "n", "k", " ", "o", "f", " ", "1",
      "0", "0", "$", " ", "t", "o", " ", "a", "b", "c", "@", "g", "m", "a", "i", "l",
      ".", "c", "o", "m">>

\* pieces the other queries are put together from
Fragments ==
    { <<"A", "d", "d", " ", "p", "a", "r", "t">>,
      <<"a", "d", "d", " ", "p", "a", "r">>,
      <<"t">>,
      <<" ", "s", "e", "n", "d", " ", "a", " ", "P", "a", "y", "m", "e", "n", "t", " ", "L",
      "i", "n", "k">>,
      <<"p", "a", "y", "m", "e", "n", "t", " ", "l", "i", "n", "k">>,
      <<"p", "a", "y", "m", "e", "n", "t", "-", "l", "i", "n", "k">>,
      <<" ">> }

\* at most this many fragments make a query
MaxFragments == 2

RECURSIVE Concat(_)
Concat(ss) == IF ss = <<>> THEN <<>> ELSE Head(ss) \o Concat(Tail(ss))

Queries ==
    {Concat(fs) : fs \in UNION {[1..n -> Fragments] : n \in 0..MaxFragments}}
        \cup {QueryAddAndPay, ComplexQuery}

----------------------------------------------------------------------------
(* automotive_multi-agent.py: data model *)

\* WorkflowStep(...); status defaults to "pending"
WorkflowStep(id, type, act, params, deps) ==
    [step_id |-> id, agent_type |-> type, action |-> act, parameters |-> params,
     dependencies |-> deps, status |-> "pending"]

\* WorkflowPlan(...); parallel_groups defaults to []
WorkflowPlan(rid, q, steps, order) ==
    [request_id |-> rid, original_query |-> q, steps |-> steps,
     execution_order |-> order, parallel_groups |-> <<>>]

NoPlan == [request_id |-> "none"]

----------------------------------------------------------------------------
(* automotive_multi-agent.py: the domain tools *)

\* A tool's response: success, tool, error ("none" when the key is absent) and
\* the set of keys the returned dict carries.
Response(ok, tool, err, keys) == [success |-> ok, tool |-> tool, error |-> err, keys |-> keys]
NoResponse == [success |-> FALSE, tool |-> "none", error |-> "none", keys |-> {}]

get_repair_order_details(ro_number) ==
    IF ro_number = "RO_001"
    THEN Response(TRUE, "get_repair_order_details", "none",
                  {"success", "tool", "result", "timestamp", "mcp_server"})
    ELSE Response(FALSE, "get_repair_order_details", "Repair Order Not Found",
                  {"success", "error", "message", "tool", "mcp_server"})

get_part_by_number(part_number) ==
    IF part_number = "PART_001"
    THEN Response(TRUE, "get_part_by_number", "none",
                  {"success", "tool", "result", "timestamp", "mcp_server"})
    ELSE Response(FALSE, "get_part_by_number", "Part Not Found",
                  {"success", "error", "message", "tool", "mcp_server"})

add_part_to_repair_order(ro_number, part_number, quantity) ==
    Response(TRUE, "add_part_to_repair_order", "none",
             {"success", "tool", "result", "timestamp", "message", "mcp_server"})

\* \s of the email pattern
Whitespace == {" ", "\t", "\n", "\r"}

\* [^\s@]
EmailChar(c) == c \notin Whitespace /\ c # "@"

\* [^\s@]+@[^\s@]+\.[^\s@]+ over the whole of s
EmailBody(s) ==
    \E i \in 2..Len(s), j \in 4..(Len(s) - 1) :
        /\ i + 1 < j
        /\ s[i] = "@"
        /\ s[j] = "."
        /\ \A k \in 1..Len(s) : k # i => EmailChar(s[k])

\* re.match(r'^[^\s@]+@[^\s@]+\.[^\s@]+$', s): $ also matches before a final newline
EmailMatches(s) ==
    \/ EmailBody(s)
    \/ Len(s) > 0 /\ s[Len(s)] = "\n" /\ EmailBody(SubSeq(s, 1, Len(s) - 1))

MaxAmount == 999999999

\* the amount validated before the email
create_payment_link_AmountFirst(ro_number, amount, customer_email) ==
    IF amount <= 0 \/ amount > MaxAmount
    THEN Response(FALSE, "create_payment_link", "Invalid Amount",
                  {"success", "error", "message", "tool"})
    ELSE IF ~EmailMatches(customer_email)
    THEN Response(FALSE, "create_payment_link", "Invalid Email",
                  {"success", "error", "message", "tool"})
    ELSE Response(TRUE, "create_payment_link", "none",
                  {"success", "tool", "result", "timestamp", "message", "mcp_server"})

\* no create_payment_link call yet
NoArgs == [amount |-> 0, customer_email |-> <<>>]

create_payment_link(ro_number, amount, customer_email) ==
    IF ~EmailMatches(customer_email)
    THEN Response(FALSE, "create_payment_link", "Invalid Email",
                  {"success", "error", "message", "tool"})
    ELSE IF amount <= 0 \/ amount > MaxAmount
    THEN Response(FALSE, "create_payment_link", "Invalid Amount",
                  {"success", "error", "message", "tool"})
    ELSE Response(TRUE, "create_payment_link", "none",
                  {"success", "tool", "result", "timestamp", "message", "mcp_server"})

\* "abc@gmail.com"
EmailAbc == <<"a", "b", "c", "@", "g", "m", "a", "i", "l", ".", "c", "o", "m">>

\* the plan of a compound request: two validation steps, then two execution steps
CompoundSteps ==
    << WorkflowStep("validate_1", "repair_orders", "validate_repair_order",
                    [ro_number |-> "RO_001"], <<>>),
       WorkflowStep("validate_2", "parts", "validate_part_exists",
                    [part_number |-> "PART_001"], <<"validate_1">>),
       WorkflowStep("execute_1", "parts", "add_part_to_order",
                    [ro_number |-> "RO_001", part_number |-> "PART_001", quantity |-> 1],
                    <<"validate_5">>),
       WorkflowStep("execute_2", "payment", "create_payment_link",
                    [ro_number |-> "RO_001", amount |-> 100,
                     customer_email |-> EmailAbc, currency |-> "USD"],
                    <<"execute_1">>) >>

\* either phrase alone taken for a compound request
IsCompound_Or(q) == Contains(StrAddPart, Lower(q)) \/ Contains(StrPaymentLink, Lower(q))

\* if "add part" in query.lower() and "payment link" in query.lower()
IsCompound(q) == Contains(StrAddPart, Lower(q)) /\ Contains(StrPaymentLink, Lower(q))

analyze_multi_domain_request(q) ==
    IF IsCompound(q)
    THEN WorkflowPlan("REQ_001_DEFENSIVE", q, CompoundSteps,
                      <<"validate_1", "validate_2", "execute_1", "execute_2">>)
    ELSE WorkflowPlan("REQ_002", q,
                      << WorkflowStep("step_1", "general", "handle_query", [query |-> q], <<>>) >>,
                      <<"step_1">>)

----------------------------------------------------------------------------
(* automotive_multi-agent.py: the agents *)

TriageAgent == "Automotive Triage Agent"
AutoSpecialists == {"Repair Orders Specialist", "Parts Specialist", "Payment Specialist"}

\* tools=[...] of each agent
AgentTools(a) ==
    CASE a = "Automotive Triage Agent" -> {"analyze_multi_domain_request"}
      [] a = "Repair Orders Specialist" -> {"get_repair_order_details", "add_part_to_repair_order"}
      [] a = "Parts Specialist" -> {"get_part_by_number"}
      [] a = "Payment Specialist" -> {"create_payment_link"}

\* the second pass forgotten: the triage agent keeps the empty list it was built with
AutoHandoffs_Unwired(a) == IF a = TriageAgent THEN {} ELSE {TriageAgent}

\* handoffs=[triage_agent] of each specialist; triage_agent.handoffs = [the three specialists]
AutoHandoffs(a) == IF a = TriageAgent THEN AutoSpecialists ELSE {TriageAgent}

AutoAgents == {TriageAgent} \cup AutoSpecialists

DomainTools ==
    {"get_repair_order_details", "add_part_to_repair_order", "get_part_by_number",
     "create_payment_link"}

\* arguments the language model may pass to the tools
RoNumbers == {"RO_001", "RO_999"}
PartNumbers == {"PART_001", "PART_999"}
Amounts == {0 - 1, 0, 100, MaxAmount, MaxAmount + 1}
Emails ==
    { EmailAbc,
      <<"a", "@", "b">>,
      <<"a", " ", "b", "@", "c", ".", "d">>,
      <<"a", "@", "b", ".", "c", "\n">>,
      <<"a", "b", "c", ".", "c", "o", "m">> }

\* what a call of a domain tool can return, over the arguments above
ToolResponses(tool) ==
    CASE tool = "get_repair_order_details" -> {get_repair_order_details(ro) : ro \in RoNumbers}
      [] tool = "get_part_by_number" -> {get_part_by_number(pn) : pn \in PartNumbers}
      [] tool = "add_part_to_repair_order" ->
            {add_part_to_repair_order(ro, pn, 1) : ro \in RoNumbers, pn \in PartNumbers}
      [] tool = "create_payment_link" ->
            {create_payment_link(ro, am, em) : ro \in RoNumbers, am \in Amounts, em \in Emails}

\* the turns a run may use (max_turns of execute_multi_domain_workflow)
MaxTurns == 6

\* plans a caller can construct by hand: two steps A and B, each with no
\* dependency or one on A, on B, or on the absent C
DepChoices == {<<>>, <<"A">>, <<"B">>, <<"C">>}
HandPlans(q) ==
    { WorkflowPlan("REQ_X", q,
                   << WorkflowStep("A", "general", "handle_query", [query |-> q], da),
                      WorkflowStep("B", "general", "handle_query", [query |-> q], db) >>,
                   order) :
        da \in DepChoices, db \in DepChoices, order \in {<<"A", "B">>, <<"B", "A">>} }

----------------------------------------------------------------------------
(* automotive_multi-agent.py: operations *)

InitAutomotive ==
    /\ wfPc = "start"
    /\ query \in Queries
    /\ plan = NoPlan
    /\ raised = "none"
    /\ wfAgent = TriageAgent
    /\ wfTurns = 0
    /\ invoked = [t \in DomainTools |-> NoResponse]
    /\ results = {}
    /\ payArgs = NoArgs

\* analyze_multi_domain_request(query), called on its own
AnalyzeRequest ==
    /\ prog = "automotive" /\ wfPc = "start"
    /\ plan' = analyze_multi_domain_request(query)
    /\ wfPc' = "analyzed"
    /\ UNCHANGED <<playbookVars, tradingVars, prog, handoffs, query, raised, wfAgent, wfTurns, invoked, results, payArgs>>

\* WorkflowPlan(request_id=..., original_query=..., steps=[...], execution_order=[...]):
\* the model validates the field types and nothing else
ConstructPlan ==
    /\ prog = "automotive" /\ wfPc = "start"
    /\ \E p \in HandPlans(query) : plan' = p
    /\ wfPc' = "constructed"
    /\ UNCHANGED <<playbookVars, tradingVars, prog, handoffs, query, raised, wfAgent, wfTurns, invoked, results, payArgs>>

\* main: await execute_multi_domain_workflow(complex_query, ...): Runner.run(triage_agent, ...)
StartWorkflow ==
    /\ prog = "automotive" /\ wfPc = "start"
    /\ query = ComplexQuery
    /\ wfAgent' = TriageAgent
    /\ wfPc' = "running"
    /\ UNCHANGED <<playbookVars, tradingVars, prog, handoffs, query, plan, raised, wfTurns, invoked, results, payArgs>>

\* a turn of the run in which the triage agent calls its tool
TurnAnalyze ==
    /\ prog = "automotive" /\ wfPc = "running" /\ wfTurns < MaxTurns
    /\ "analyze_multi_domain_request" \in AgentTools(wfAgent)
    /\ plan' = analyze_multi_domain_request(query)
    /\ wfTurns' = wfTurns + 1
    /\ UNCHANGED <<playbookVars, tradingVars, prog, handoffs, wfPc, query, raised, wfAgent, invoked, results, payArgs>>

\* a turn of the run in which the agent calls one of its domain tools
TurnToolCall ==
    /\ prog = "automotive" /\ wfPc = "running" /\ wfTurns < MaxTurns
    /\ \E tool \in AgentTools(wfAgent) \cap DomainTools :
         IF tool = "create_payment_link"
         THEN \E ro \in RoNumbers, am \in Amounts, em \in Emails :
                /\ invoked' = [invoked EXCEPT ![tool] = create_payment_link(ro, am, em)]
                /\ payArgs' = [amount |-> am, customer_email |-> em]
         ELSE /\ \E r \in ToolResponses(tool) : invoked' = [invoked EXCEPT ![tool] = r]
              /\ UNCHANGED payArgs
    /\ wfTurns' = wfTurns + 1
    /\ UNCHANGED <<playbookVars, tradingVars, prog, handoffs, wfPc, query, plan, raised, wfAgent, results>>

\* a turn of the run in which the agent hands off
TurnHandoff ==
    /\ prog = "automotive" /\ wfPc = "running" /\ wfTurns < MaxTurns
    /\ \E a \in handoffs[wfAgent] : wfAgent' = a
    /\ wfTurns' = wfTurns + 1
    /\ UNCHANGED <<playbookVars, tradingVars, prog, handoffs, wfPc, query, plan, raised, invoked, results, payArgs>>

\* a turn of the run in which the agent gives its final output: the run returns,
\* execute_multi_domain_workflow prints the output and returns
TurnFinal ==
    /\ prog = "automotive" /\ wfPc = "running" /\ wfTurns < MaxTurns
    /\ wfTurns' = wfTurns + 1
    /\ wfPc' = "final"
    /\ UNCHANGED <<playbookVars, tradingVars, prog, handoffs, query, plan, raised, wfAgent, invoked, results, payArgs>>

\* the run needs a turn beyond max_turns: Runner.run raises MaxTurnsExceeded
TurnsExceeded ==
    /\ prog = "automotive" /\ wfPc = "running" /\ wfTurns >= MaxTurns
    /\ raised' = "MaxTurnsExceeded"
    /\ wfPc' = "raised"
    /\ UNCHANGED <<playbookVars, tradingVars, prog, handoffs, query, plan, wfAgent, wfTurns, invoked, results, payArgs>>

----------------------------------------------------------------------------
(* trading_agent.py: parse_symbol_from_query *)

\* str.upper(), one character
UpperChar(c) ==
    IF \E i \in 1..Len(LowerCase) : LowerCase[i] = c
    THEN UpperCase[CHOOSE i \in 1..Len(LowerCase) : LowerCase[i] = c]
    ELSE c

\* query.upper()
Upper(s) == [i \in 1..Len(s) |-> UpperChar(s[i])]

\* [A-Z0-9&\-]
SymbolChars ==
    {UpperCase[i] : i \in 1..Len(UpperCase)}
        \cup {"0", "1", "2", "3", "4", "5", "6", "7", "8", "9", "&", "-"}

\* (NSE|BSE|NFO|MCX), in the order the pattern tries them
ExchangeNames == <<<<"N", "S", "E">>, <<"B", "S", "E">>, <<"N", "F", "O">>, <<"M", "C", "X">>>>

StrNSE == <<"N", "S", "E">>
StrON == <<"O", "N">>
StrAT == <<"A", "T">>
StrTRADED == <<"T", "R", "A", "D", "E", "D">>

\* the result (None, None), and the absence of a match
NoneResult == [symbol |-> <<"None">>, exchange |-> <<"None">>]
NoMatch == [symbol |-> <<>>, exchange |-> <<>>]

\* the literal lit stands in u at position i
LitAt(u, i, lit) ==
    /\ i >= 1
    /\ i + Len(lit) - 1 <= Len(u)
    /\ SubSeq(u, i, i + Len(lit) - 1) = lit

\* the alternative of (NSE|BSE|NFO|MCX) that matches at position i (<<>>: none)
ExchangeAt(u, i) ==
    IF \E n \in 1..Len(ExchangeNames) : LitAt(u, i, ExchangeNames[n])
    THEN ExchangeNames[CHOOSE n \in 1..Len(ExchangeNames) :
                          /\ LitAt(u, i, ExchangeNames[n])
                          /\ \A m \in 1..(n - 1) : ~LitAt(u, i, ExchangeNames[m])]
    ELSE <<>>

\* the last position of the longest run of characters of S that starts at i
\* (i - 1: no such character at i)
RECURSIVE RunEnd(_, _, _)
RunEnd(u, i, S) ==
    IF i >= 1 /\ i <= Len(u) /\ u[i] \in S THEN RunEnd(u, i + 1, S) ELSE i - 1

\* the positions at which \s+ started at j can stop (the position after it)
AfterWs(u, j) == (j + 1)..(RunEnd(u, j, Whitespace) + 1)

\* a greedy quantifier gives back one character at a time: the longest choice
\* that lets the rest match is taken
Longest(S) == CHOOSE x \in S : \A y \in S : y <= x

\* (NSE|BSE|NFO|MCX):([A-Z0-9&\-]+) tried at position i
Pattern1At(u, i) ==
    IF /\ ExchangeAt(u, i) # <<>>
       /\ LitAt(u, i + 3, <<":">>)
       /\ RunEnd(u, i + 4, SymbolChars) >= i + 4
    THEN [symbol |-> SubSeq(u, i + 4, RunEnd(u, i + 4, SymbolChars)),
          exchange |-> ExchangeAt(u, i)]
    ELSE NoMatch

\* \s+(NSE|BSE|NFO|MCX) tried at position j: the exchange, or <<>>
WsExchangeAt(u, j) ==
    LET ks == {k \in AfterWs(u, j) : ExchangeAt(u, k) # <<>>}
    IN  IF ks = {} THEN <<>> ELSE ExchangeAt(u, Longest(ks))

\* (?:ON|AT|TRADED\s+AT)\s+(NSE|BSE|NFO|MCX) tried at position j, the
\* alternatives in their order: the exchange, or <<>>
KeywordExchangeAt(u, j) ==
    IF LitAt(u, j, StrON) /\ WsExchangeAt(u, j + 2) # <<>>
    THEN WsExchangeAt(u, j + 2)
    ELSE IF LitAt(u, j, StrAT) /\ WsExchangeAt(u, j + 2) # <<>>
    THEN WsExchangeAt(u, j + 2)
    ELSE IF LitAt(u, j, StrTRADED)
    THEN LET ks == {k \in AfterWs(u, j + 6) :
                       LitAt(u, k, StrAT) /\ WsExchangeAt(u, k + 2) # <<>>}
         IN  IF ks = {} THEN <<>> ELSE WsExchangeAt(u, Longest(ks) + 2)
    ELSE <<>>

\* \s+(?:ON|AT|TRADED\s+AT)\s+(NSE|BSE|NFO|MCX) tried at position j
WsKeywordExchangeAt(u, j) ==
    LET ks == {k \in AfterWs(u, j) : KeywordExchangeAt(u, k) # <<>>}
    IN  IF ks = {} THEN <<>> ELSE KeywordExchangeAt(u, Longest(ks))

\* ([A-Z0-9&\-]+)\s+(?:ON|AT|TRADED\s+AT)\s+(NSE|BSE|NFO|MCX) tried at position i
Pattern2At(u, i) ==
    LET es == {e \in i..RunEnd(u, i, SymbolChars) : WsKeywordExchangeAt(u, e + 1) # <<>>}
    IN  IF es = {} THEN NoMatch
        ELSE [symbol |-> SubSeq(u, i, Longest(es)),
              exchange |-> WsKeywordExchangeAt(u, Longest(es) + 1)]

\* (NSE|BSE|NFO|MCX)\s+([A-Z0-9&\-]+) tried at position i
Pattern3At(u, i) ==
    LET ks == {k \in AfterWs(u, i + 3) : RunEnd(u, k, SymbolChars) >= k}
    IN  IF ExchangeAt(u, i) = <<>> \/ ks = {} THEN NoMatch
        ELSE [symbol |-> SubSeq(u, Longest(ks), RunEnd(u, Longest(ks), SymbolChars)),
              exchange |-> ExchangeAt(u, i)]

PatternAt(n, u, i) ==
    CASE n = 1 -> Pattern1At(u, i)
      [] n = 2 -> Pattern2At(u, i)
      [] n = 3 -> Pattern3At(u, i)

\* re.search(pattern n, u): the match at the first position that has one
RECURSIVE SearchFrom(_, _, _)
SearchFrom(n, u, i) ==
    IF i > Len(u) THEN NoMatch
    ELSE IF PatternAt(n, u, i) # NoMatch THEN PatternAt(n, u, i)
    ELSE SearchFrom(n, u, i + 1)
Search(n, u) == SearchFrom(n, u, 1)

known_symbols ==
    << <<"R", "E", "L", "I", "A", "N", "C", "E">>,
       <<"T", "C", "S">>,
       <<"I", "N", "F", "Y">>,
       <<"H", "D", "F", "C">>,
       <<"I", "C", "I", "C", "I">>,
       <<"S", "B", "I">>,
       <<"I", "T", "C">>,
       <<"H", "D", "F", "C", "B", "A", "N", "K">>,
       <<"B", "H", "A", "R", "T", "I", "A", "R", "T", "L">>,
       <<"K", "O", "T", "A", "K", "B", "A", "N", "K">>,
       <<"L", "T">>,
       <<"A", "S", "I", "A", "N", "P", "A", "I", "N", "T">>,
       <<"M", "A", "R", "U", "T", "I">>,
       <<"T", "I", "T", "A", "N">>,
       <<"N", "E", "S", "T", "L", "E", "I", "N", "D">>,
       <<"U", "L", "T", "R", "A", "C", "E", "M", "C", "O">>,
       <<"B", "A", "J", "F", "I", "N", "A", "N", "C", "E">>,
       <<"S", "E", "N", "S", "E", "X">>,
       <<"N", "I", "F", "T", "Y">> >>

\* for symbol in known_symbols: if symbol in query_upper: return symbol, "NSE"
RECURSIVE KnownFrom(_, _)
KnownFrom(u, n) ==
    IF n > Len(known_symbols) THEN NoneResult
    ELSE IF Contains(known_symbols[n], u) THEN [symbol |-> known_symbols[n], exchange |-> StrNSE]
    ELSE KnownFrom(u, n + 1)

\* the "EXCHANGE SYMBOL" pattern tried before the "SYMBOL on EXCHANGE" pattern
parse_symbol_from_query_Pattern3First(q) ==
    LET query_upper == Upper(q) IN
    IF Search(1, query_upper) # NoMatch THEN Search(1, query_upper)
    ELSE IF Search(3, query_upper) # NoMatch THEN Search(3, query_upper)
    ELSE IF Search(2, query_upper) # NoMatch THEN Search(2, query_upper)
    ELSE KnownFrom(query_upper, 1)

\* query_upper = query.upper(); the patterns in turn, then the known symbols
parse_symbol_from_query(q) ==
    LET query_upper == Upper(q) IN
    IF Search(1, query_upper) # NoMatch THEN Search(1, query_upper)
    ELSE IF Search(2, query_upper) # NoMatch THEN Search(2, query_upper)
    ELSE IF Search(3, query_upper) # NoMatch THEN Search(3, query_upper)
    ELSE KnownFrom(query_upper, 1)

\* the queries of the claim's examples and the one main passes
QueryNseReliance == <<"N", "S", "E", ":", "R", "E", "L", "I", "A", "N", "C", "E">>
QueryRelianceOnBse == <<"R", "E", "L", "I", "A", "N", "C", "E", " ", "o", "n", " ", "B", "S", "E">>
QueryAboutTcs == <<"t", "e", "l", "l", " ", "m", "e", " ", "a", "b", "o", "u", "t", " ", "T", "C", "S">>
QueryUnrelated == <<"r", "a", "n", "d", "o", "m", " ", "u", "n", "r", "e", "l", "a", "t", "e", "d", " ", "t", "e", "x", "t">>
MainQuery == <<"D", "o", " ", "l", "i", "v", "e", " ", "a", "n", "a", "l", "y", "s", "i", "s", " ", "o", "f", " ", "R", "E", "L", "I", "A", "N", "C", "E", " ", "s", "t", "o", "c", "k", " ", "t", "r", "a", "d", "e", "d", " ", "a", "t", " ", "N", "S", "E">>

\* words and phrases a query is put together from, and how many of them at most
TradeWords ==
    { <<"n", "s", "e", ":", "i", "n", "f", "y">>,
      <<"R", "e", "l", "i", "a", "n", "c", "e">>,
      <<"o", "n">>,
      <<"B", "S", "E">>,
      <<"T", "C", "S">>,
      <<"t", "r", "a", "d", "e", "d", " ", " ", "a", "t">>,
      <<"a", "b", "o", "u", "t", " ", "I", "T", "C", ",">>,
      <<"t", "o", "d", "a", "y">> }
MaxWords == 3

RECURSIVE JoinWords(_)
JoinWords(ws) ==
    IF Len(ws) = 1 THEN ws[1] ELSE ws[1] \o <<" ">> \o JoinWords(Tail(ws))

TradeQueries ==
    {JoinWords(ws) : ws \in UNION {[1..n -> TradeWords] : n \in 1..MaxWords}}
        \cup {QueryNseReliance, QueryRelianceOnBse, QueryAboutTcs, QueryUnrelated, MainQuery}

----------------------------------------------------------------------------
(* trading_agent.py: _get_user_profile *)

\* one attempt more than the three the loop is meant to make
max_attempts_Four == 3 + 1

max_attempts == 3

\* ['login', 'authenticate', 'session']
LoginKeywords == {<<"l", "o", "g", "i", "n">>, <<"a", "u", "t", "h", "e", "n", "t", "i", "c", "a", "t", "e">>, <<"s", "e", "s", "s", "i", "o", "n">>}
StrKite == <<"k", "i", "t", "e">>
StrLogin == <<"l", "o", "g", "i", "n">>

\* any(keyword in output.lower() for keyword in ['login', 'authenticate', 'session'])
NeedsLogin(o) == \E k \in LoginKeywords : Contains(k, Lower(o))

\* 'login' in login_output.lower() and 'kite' in login_output.lower()
LoginPending(o) == Contains(StrLogin, Lower(o)) /\ Contains(StrKite, Lower(o))

\* texts the profile run and the login run can end with
ProfileOutputs == {<<"P", "l", "e", "a", "s", "e", " ", "L", "o", "g", "i", "n">>, <<"S", "e", "s", "s", "i", "o", "n", " ", "e", "x", "p", "i", "r", "e", "d">>, <<"a", "u", "t", "h", "e", "n", "t", "i", "c", "a", "t", "e">>, <<"n", "a", "m", "e", ":", " ", "A", "s", "h", "a">>}
LoginOutputs == {<<"O", "p", "e", "n", " ", "t", "h", "e", " ", "K", "i", "t", "e", " ", "L", "o", "g", "i", "n", " ", "p", "a", "g", "e">>, <<"o", "k">>, <<"l", "o", "g", "i", "n", " ", "f", "a", "i", "l", "e", "d">>}

\* result = await Runner.run(...profile...) returned: either the login is
\* needed, or the welcome message is displayed and True returned
ProfileRun ==
    /\ prog = "trading" /\ tPc = "profile"
    /\ attempt < max_attempts
    /\ \E o \in ProfileOutputs :
         /\ output' = o
         /\ IF NeedsLogin(o)
            THEN tPc' = "login" /\ UNCHANGED authResult
            ELSE tPc' = "start" /\ authResult' = "True"
    /\ profileRuns' = profileRuns + 1
    /\ logins' = 0
    /\ UNCHANGED <<playbookVars, autoVars, streamVars, prog, handoffs, user_query, parsed, attempt>>

\* the profile run raised: except Exception prints, and the loop goes on
ProfileRaises ==
    /\ prog = "trading" /\ tPc = "profile"
    /\ attempt < max_attempts
    /\ output' = <<>>
    /\ profileRuns' = profileRuns + 1
    /\ logins' = 0
    /\ attempt' = attempt + 1
    /\ UNCHANGED <<playbookVars, autoVars, streamVars, prog, handoffs, tPc, user_query, parsed, authResult>>

\* login_result = await Runner.run(...login...) returned: sleep and continue
\* when it shows the Kite login, else fall through to the next attempt
LoginRun ==
    /\ prog = "trading" /\ tPc = "login"
    /\ logins' = logins + 1
    /\ \E o \in LoginOutputs :
         IF LoginPending(o)
         THEN tPc' = "waiting" /\ UNCHANGED attempt
         ELSE tPc' = "profile" /\ attempt' = attempt + 1
    /\ UNCHANGED <<playbookVars, autoVars, streamVars, prog, handoffs, user_query, parsed, authResult, output, profileRuns>>

\* the login run raised: except Exception prints, and the loop goes on
LoginRaises ==
    /\ prog = "trading" /\ tPc = "login"
    /\ logins' = logins + 1
    /\ attempt' = attempt + 1
    /\ tPc' = "profile"
    /\ UNCHANGED <<playbookVars, autoVars, streamVars, prog, handoffs, user_query, parsed, authResult, output, profileRuns>>

\* await asyncio.sleep(5); continue
LoginWait ==
    /\ prog = "trading" /\ tPc = "waiting"
    /\ attempt' = attempt + 1
    /\ tPc' = "profile"
    /\ UNCHANGED <<playbookVars, autoVars, streamVars, prog, handoffs, user_query, parsed, authResult, output, profileRuns, logins>>

\* the loop is used up: return False; run_trading_session goes on to the query
AuthFailed ==
    /\ prog = "trading" /\ tPc = "profile"
    /\ attempt >= max_attempts
    /\ authResult' = "False"
    /\ tPc' = "start"
    /\ UNCHANGED <<playbookVars, autoVars, streamVars, prog, handoffs, user_query, parsed, attempt, output, profileRuns, logins>>

----------------------------------------------------------------------------
(* trading_agent.py: analyze_stock_from_query *)

\* Either analyze_stock_from_query is called with some query, or main runs
\* run_trading_session with its own query, which starts with initialize.
InitTrading ==
    /\ user_query \in TradeQueries
    /\ parsed = NoMatch
    /\ \/ tPc = "start" /\ authResult = "none"
       \/ tPc = "profile" /\ authResult = "pending" /\ user_query = MainQuery
    /\ attempt = 0
    /\ output = <<>>
    /\ profileRuns = 0
    /\ logins = 0
    /\ now = 0
    /\ end_time = 0
    /\ quote_count = 0
    /\ price_history = <<>>
    /\ retrievals = 0

\* symbol, exchange = self.parse_symbol_from_query(user_query)
ParseQuery ==
    /\ prog = "trading" /\ tPc = "start"
    /\ parsed' = parse_symbol_from_query(user_query)
    /\ tPc' = "parsed"
    /\ UNCHANGED <<playbookVars, autoVars, streamVars, authVars, prog, handoffs, user_query>>

\* if not symbol: return {"error": ...}
NoSymbol ==
    /\ prog = "trading" /\ tPc = "parsed"
    /\ parsed = NoneResult
    /\ tPc' = "error"
    /\ UNCHANGED <<playbookVars, autoVars, streamVars, authVars, prog, handoffs, user_query, parsed>>

\* self.current_symbol = symbol; self.current_exchange = exchange
SymbolFound ==
    /\ prog = "trading" /\ tPc = "parsed"
    /\ parsed # NoneResult
    /\ tPc' = "analyzing"
    /\ UNCHANGED <<playbookVars, autoVars, streamVars, authVars, prog, handoffs, user_query, parsed>>

----------------------------------------------------------------------------
(* trading_agent.py: get_stock_quote and stream_stock_quotes *)

\* the longest window a caller asks for, in minutes
MaxDuration == 2

\* a tick of the clock is 30 seconds, the sleep of the loop
TicksPerMinute == 1 + 1

\* the window taken as still open at its very end
WindowOpen_Inclusive(t, e) == t <= e

\* datetime.now().timestamp() < end_time
WindowOpen(t, e) == t < e

\* What str(quote_result.final_output) can hold: text that is no JSON, which
\* names the symbol or does not, or a JSON object with a status, with or without
\* a key of "data" that holds the symbol, whose value is an object or not.
QuoteOutput(json, status, key, info, named) ==
    [json |-> json, status |-> status, key |-> key, info |-> info, named |-> named]
QuoteOutputs ==
    { QuoteOutput(FALSE, "none", FALSE, "none", FALSE),
      QuoteOutput(FALSE, "none", FALSE, "none", TRUE),
      QuoteOutput(TRUE, "error", TRUE, "object", TRUE),
      QuoteOutput(TRUE, "success", FALSE, "object", FALSE),
      QuoteOutput(TRUE, "success", TRUE, "number", TRUE),
      QuoteOutput(TRUE, "success", TRUE, "object", TRUE) }

\* json.loads; status == "success"; any(symbol.upper() in key.upper() ...);
\* on JSONDecodeError: symbol.upper() in quote_data_string.upper()
filter_symbol_data(o) == IF o.json THEN o.status = "success" /\ o.key ELSE o.named

\* json.loads; the first key that holds the symbol gives the dict of its
\* quote_info.get(...) values; None when there is none, on JSONDecodeError and
\* on AttributeError (quote_info is no object)
extract_quote_data(o) == IF o.json /\ o.key /\ o.info = "object" THEN "quote_data" ELSE "None"

\* quote_result = await self.get_stock_quote(symbol, exchange) in
\* analyze_stock_from_query: a result, or None when the run raised
QuoteForAnalysis ==
    /\ prog = "trading" /\ tPc = "analyzing"
    /\ \E ok \in BOOLEAN : tPc' = IF ok THEN "analyzed" ELSE "error"
    /\ UNCHANGED <<playbookVars, autoVars, streamVars, authVars, prog, handoffs, user_query, parsed>>

\* run_trading_session: await self.stream_stock_quotes(symbol, exchange, duration_minutes);
\* end_time = datetime.now().timestamp() + (duration_minutes * 60); quote_count = 0
StartStreaming ==
    /\ prog = "trading" /\ tPc = "analyzed"
    /\ authResult # "none"
    /\ \E duration_minutes \in 0..MaxDuration :
         end_time' = now + duration_minutes * TicksPerMinute
    /\ quote_count' = 0
    /\ tPc' = "loop"
    /\ UNCHANGED <<playbookVars, autoVars, authVars, prog, handoffs, user_query, parsed,
                   now, price_history, retrievals>>

\* One pass of the try block while the window is open. The retrieval takes no
\* tick or one. It gives None (the run raised), or an output: the quote is
\* counted when filter_symbol_data accepts it and stored when extract_quote_data
\* gives data. An exception later in the block (a volume that cannot be
\* formatted) goes to the handler, which sleeps as the block does.
StreamFetch ==
    /\ prog = "trading" /\ tPc = "loop"
    /\ WindowOpen(now, end_time)
    /\ retrievals' = retrievals + 1
    /\ \E d \in 0..1 : now' = now + d
    /\ \/ UNCHANGED <<quote_count, price_history>>
       \/ \E o \in QuoteOutputs :
            IF filter_symbol_data(o)
            THEN /\ quote_count' = quote_count + 1
                 /\ IF extract_quote_data(o) # "None"
                    THEN price_history' =
                            Append(price_history, [timestamp |-> now', data |-> extract_quote_data(o)])
                    ELSE UNCHANGED price_history
            ELSE UNCHANGED <<quote_count, price_history>>
    /\ tPc' = "sleeping"
    /\ UNCHANGED <<playbookVars, autoVars, authVars, prog, handoffs, user_query, parsed, end_time>>

\* await asyncio.sleep(30), in the block or in the handler
StreamSleep ==
    /\ prog = "trading" /\ tPc = "sleeping"
    /\ now' = now + 1
    /\ tPc' = "loop"
    /\ UNCHANGED <<playbookVars, autoVars, authVars, prog, handoffs, user_query, parsed,
                   end_time, quote_count, price_history, retrievals>>

\* the while condition is false: print the total and return
StreamExit ==
    /\ prog = "trading" /\ tPc = "loop"
    /\ ~WindowOpen(now, end_time)
    /\ tPc' = "streamed"
    /\ UNCHANGED <<playbookVars, autoVars, streamVars, authVars, prog, handoffs, user_query, parsed>>

TradingOff ==
    /\ tPc = "off"
    /\ user_query = <<>>
    /\ parsed = NoMatch
    /\ authResult = "none"
    /\ attempt = 0
    /\ output = <<>>
    /\ profileRuns = 0
    /\ logins = 0
    /\ now = 0
    /\ end_time = 0
    /\ quote_count = 0
    /\ price_history = <<>>
    /\ retrievals = 0

----------------------------------------------------------------------------

\* the state of the program that is not run
PlaybookOff ==
    /\ pc = "off"
    /\ msg = "none"
    /\ inputs = <<>>
    /\ agent = "triage_agent"
    /\ final_output = NoOutput
    /\ printed = "none"
    /\ invocations = 0
    /\ handoffPath = <<>>

AutomotiveOff ==
    /\ wfPc = "off"
    /\ query = <<>>
    /\ plan = NoPlan
    /\ raised = "none"
    /\ wfAgent = TriageAgent
    /\ wfTurns = 0
    /\ invoked = [t \in DomainTools |-> NoResponse]
    /\ results = {}
    /\ payArgs = NoArgs

\* the agents as create_agents returns them, as the automotive module has them
\* once it is loaded, and the one agent of TradingAgent.initialize (no handoffs)
Init ==
    /\ prog \in {"playbook", "automotive", "trading"}
    /\ CASE prog = "playbook" ->
              /\ handoffs = [a \in Agents |-> Handoffs(a)]
              /\ InitPlaybook /\ AutomotiveOff /\ TradingOff
         [] prog = "automotive" ->
              /\ handoffs = [a \in AutoAgents |-> AutoHandoffs(a)]
              /\ PlaybookOff /\ InitAutomotive /\ TradingOff
         [] prog = "trading" ->
              /\ handoffs = [a \in {"generic_trading_agent"} |-> {}]
              /\ PlaybookOff /\ AutomotiveOff /\ InitTrading

Next ==
    \/ RunAgent
    \/ RunnerRaises
    \/ CheckTriage
    \/ SafetyCheck
    \/ NextMessage
    \/ Quit
    \/ AnalyzeRequest
    \/ ConstructPlan
    \/ StartWorkflow
    \/ TurnAnalyze
    \/ TurnToolCall
    \/ TurnHandoff
    \/ TurnFinal
    \/ TurnsExceeded
    \/ ParseQuery
    \/ NoSymbol
    \/ SymbolFound
    \/ ProfileRun
    \/ ProfileRaises
    \/ LoginRun
    \/ LoginRaises
    \/ LoginWait
    \/ AuthFailed
    \/ QuoteForAnalysis
    \/ StartStreaming
    \/ StreamFetch
    \/ StreamSleep
    \/ StreamExit

Spec == Init /\ [][Next]_vars

\* What main runs on without being scheduled by anybody else: the awaited run
\* returns or raises, and the two checks that follow it are plain sequential code.
FairSpec ==
    /\ Spec
    /\ WF_vars(RunAgent \/ RunnerRaises)
    /\ WF_vars(CheckTriage)
    /\ WF_vars(SafetyCheck)
    /\ WF_vars(ProfileRun \/ ProfileRaises)
    /\ WF_vars(LoginRun \/ LoginRaises)
    /\ WF_vars(LoginWait)
    /\ WF_vars(AuthFailed)
    /\ WF_vars(StreamFetch)
    /\ WF_vars(StreamSleep)
    /\ WF_vars(StreamExit)

----------------------------------------------------------------------------
(* Claims about the handoff loop *)

\* The specialist a TriageDecision action names.
HandoffTarget(a) ==
    CASE a = "handoff_to_french" -> "french_agent"
      [] a = "handoff_to_spanish" -> "spanish_agent"
      [] a = "handoff_to_german" -> "german_agent"
      [] OTHER -> "nobody"

\* The status value the inner loop hands to the code after it. main keeps none:
\* every break leads to the same prompt, and main has no return statement.
StatusToCaller == IF pc = "crashed" THEN "exception" ELSE "none"

\* C1: when a run comes back at the triage agent with a TriageDecision whose
\* action is "complete", the exchange is over: the next step of main is the
\* prompt, with no run and no change of agent or history in between, and from
\* the prompt main only starts a fresh exchange (zero runs so far) or ends.
C1_CompleteIsTerminal ==
    [][ /\ ( /\ pc = "check"
             /\ agent = "triage_agent"
             /\ final_output.type = "TriageDecision"
             /\ final_output.action = "complete" )
           => ( /\ pc' = "prompt"
                /\ invocations' = invocations
                /\ agent' = agent
                /\ inputs' = inputs )
        /\ pc = "prompt"
           => \/ pc' = "done" /\ invocations' = invocations
              \/ pc' = "run" /\ invocations' = 0 /\ inputs' = <<UserItem(msg')>>
      ]_vars

\* C1 witness: an exchange that ended on "complete" after more than one run.
C1_Witness ==
    /\ pc = "prompt"
    /\ agent = "triage_agent"
    /\ final_output = TriageDecision("complete")
    /\ printed = MsgCompleted
    /\ invocations >= 2

\* C2 (as claimed): when the last run ended at the triage agent with a decision
\* that names a handoff target, the agent the loop invokes next is that specialist.
C2_HandoffInvokesSpecialist ==
    ( /\ pc = "run"
      /\ invocations > 0
      /\ final_output.type = "TriageDecision"
      /\ final_output.action # "complete" )
    => agent = HandoffTarget(final_output.action)

\* C3: one exchange makes at most 20 agent invocations, and the inner loop ends
\* (at the prompt, or with the exception of a run) whatever the agents output.
C3_LoopBounded ==
    /\ [](invocations <= 20)
    /\ [](pc \in {"run", "check", "cap"} => <>(pc \in {"prompt", "crashed"}))

\* C3 witness: the 20th invocation of an exchange has happened and the safety
\* check has ended the exchange.
C3_Witness ==
    /\ pc = "prompt"
    /\ invocations = 20
    /\ printed = MsgTooMany

----------------------------------------------------------------------------
(* Claims about the workflow plan and its execution *)

StepIds(p) == {p.steps[i].step_id : i \in 1..Len(p.steps)}

DepSet(st) == {st.dependencies[k] : k \in 1..Len(st.dependencies)}

\* the step ids some step of the plan declares as a dependency without the plan
\* holding such a step
DanglingDeps(p) == UNION {DepSet(p.steps[i]) : i \in 1..Len(p.steps)} \ StepIds(p)

\* the ids reachable from the set S along declared dependencies, in n rounds
RECURSIVE DepClosure(_, _, _)
DepClosure(p, S, n) ==
    IF n = 0 THEN S
    ELSE DepClosure(p, S \cup UNION {DepSet(p.steps[i]) :
                                       i \in {k \in 1..Len(p.steps) : p.steps[k].step_id \in S}},
                    n - 1)

\* what step st depends on, directly or through its dependencies
TransDeps(p, st) == DepClosure(p, DepSet(st), Len(p.steps))

Cyclic(p) == \E i \in 1..Len(p.steps) : p.steps[i].step_id \in TransDeps(p, p.steps[i])

\* the positions of id in the order
Positions(order, id) == {k \in 1..Len(order) : order[k] = id}

\* the two phases of a compound plan, by the operations the builder gives them
ValidationActions == {"validate_repair_order", "validate_part_exists"}
ExecutionActions == {"add_part_to_order", "create_payment_link"}

\* the entities a step names in its parameters
Entities(st) == (DOMAIN st.parameters) \cap {"ro_number", "part_number"}

\* the tool that carries out a step's action
Collaborator(st) ==
    CASE st.action = "validate_repair_order" -> "get_repair_order_details"
      [] st.action = "validate_part_exists" -> "get_part_by_number"
      [] st.action = "add_part_to_order" -> "add_part_to_repair_order"
      [] st.action = "create_payment_link" -> "create_payment_link"
      [] OTHER -> "none"

\* the plan in the state came from analyze_multi_domain_request
BuiltPlan == plan # NoPlan /\ wfPc # "constructed"

\* C5 (as claimed): a plan the builder makes in which a step depends on a step
\* id that is not in the plan is rejected with DanglingDependencyError.
C5_DanglingPlanRejected ==
    (BuiltPlan /\ DanglingDeps(plan) # {}) => raised = "DanglingDependencyError"

\* C6 (as claimed): in every plan the builder returns, execution_order is a
\* permutation of the step ids and every dependency of a step stands strictly
\* before the step in it.
C6_OrderIsTopological ==
    BuiltPlan =>
        /\ Len(plan.execution_order) = Cardinality(StepIds(plan))
        /\ {plan.execution_order[k] : k \in 1..Len(plan.execution_order)} = StepIds(plan)
        /\ \A i \in 1..Len(plan.steps) : \A d \in DepSet(plan.steps[i]) :
             \E a \in Positions(plan.execution_order, d) :
               \A b \in Positions(plan.execution_order, plan.steps[i].step_id) : a < b

\* C7: for the query "Add part PART_001 to RO_001 and send a payment link of 100
\* to a@b.com" the builder returns four steps, two validation steps and then two
\* execution steps, the payment step depends on the part-addition step, and
\* execution_order holds four entries, each step id once.
C7_CompoundPlanShape ==
    (BuiltPlan /\ plan.original_query = QueryAddAndPay) =>
        /\ Len(plan.steps) = 4
        /\ plan.steps[1].action \in ValidationActions
        /\ plan.steps[2].action \in ValidationActions
        /\ plan.steps[3].action \in ExecutionActions
        /\ plan.steps[4].action \in ExecutionActions
        /\ \E i, j \in 1..4 :
             /\ plan.steps[i].action = "create_payment_link"
             /\ plan.steps[j].action = "add_part_to_order"
             /\ plan.steps[j].step_id \in DepSet(plan.steps[i])
        /\ Len(plan.execution_order) = 4
        /\ Cardinality(StepIds(plan)) = 4
        /\ {plan.execution_order[k] : k \in 1..4} = StepIds(plan)

\* C7 witness: the builder has returned its plan for that query.
C7_Witness ==
    /\ wfPc = "analyzed"
    /\ query = QueryAddAndPay
    /\ plan # NoPlan
    /\ plan.request_id = "REQ_001_DEFENSIVE"

\* C8 (as claimed): in a compound plan every execution step depends, directly or
\* through its dependencies, on every validation step that names an entity the
\* execution step names.
C8_ExecutionAfterValidation ==
    (BuiltPlan /\ Len(plan.steps) > 1) =>
        \A e, v \in 1..Len(plan.steps) :
            ( /\ plan.steps[e].action \in ExecutionActions
              /\ plan.steps[v].action \in ValidationActions
              /\ Entities(plan.steps[e]) \cap Entities(plan.steps[v]) # {} )
            => plan.steps[v].step_id \in TransDeps(plan, plan.steps[e])

\* C9 (as claimed): a plan whose dependencies form a cycle is rejected with
\* CyclicDependencyError and carries no execution order.
C9_CyclicPlanRejected ==
    (plan # NoPlan /\ Cyclic(plan)) =>
        (raised = "CyclicDependencyError" /\ plan.execution_order = <<>>)

\* C10 (as claimed): once the workflow has run, a step that depends on a step
\* whose collaborator answered success=false has status skipped, has a recorded
\* result with success=false, and its own collaborator was not invoked.
C10_DependentsSkipped ==
    (wfPc = "final" /\ plan # NoPlan) =>
        \A e, v \in 1..Len(plan.steps) :
            ( /\ plan.steps[v].step_id \in DepSet(plan.steps[e])
              /\ Collaborator(plan.steps[v]) \in DomainTools
              /\ invoked[Collaborator(plan.steps[v])] # NoResponse
              /\ ~invoked[Collaborator(plan.steps[v])].success )
            => /\ plan.steps[e].status = "skipped"
               /\ \E r \in results : r.step_id = plan.steps[e].step_id /\ ~r.success
               /\ invoked[Collaborator(plan.steps[e])] = NoResponse

\* the steps of all groups, in order
RECURSIVE Flatten(_)
Flatten(groups) == IF groups = <<>> THEN <<>> ELSE Head(groups) \o Flatten(Tail(groups))

\* the indexes of the groups that hold id
GroupsOf(groups, id) ==
    {g \in 1..Len(groups) : \E k \in 1..Len(groups[g]) : groups[g][k] = id}

\* C11 (as claimed): in every plan the builder returns, parallel_groups flattened
\* holds every step id exactly once, a step with no dependencies is in the first
\* group, and every other step is in a later group than each of its dependencies.
C11_GroupsCoverSteps ==
    BuiltPlan =>
        LET flat == Flatten(plan.parallel_groups) IN
        /\ Len(flat) = Cardinality(StepIds(plan))
        /\ {flat[k] : k \in 1..Len(flat)} = StepIds(plan)
        /\ \A i \in 1..Len(plan.steps) :
             LET st == plan.steps[i] IN
             /\ DepSet(st) = {} => GroupsOf(plan.parallel_groups, st.step_id) = {1}
             /\ \A d \in DepSet(st) :
                  \A g \in GroupsOf(plan.parallel_groups, st.step_id) :
                    \E h \in GroupsOf(plan.parallel_groups, d) : h < g

----------------------------------------------------------------------------
(* More claims about the handoff loop *)

\* C12 (as claimed): the count the loop compares with the cap, len(inputs), is
\* at most 20 in every reachable state.
C12_CountNeverAboveCap == Len(inputs) <= 20

\* C12 (amended): len(inputs) is at most 20 whenever the loop is about to invoke
\* an agent (or that invocation raised); a run can take it above 20, by no more
\* than the items that one run added.
C12_CountAboveCapOnlyAfterRun ==
    /\ pc \in {"run", "crashed"} => Len(inputs) <= 20
    /\ Len(inputs) <= 20 + MaxNewItems

\* C12 witness: the count is above 20 and the exchange has ended.
C12_Witness ==
    /\ pc = "prompt"
    /\ Len(inputs) = 20 + MaxNewItems

\* C13: every agent invocation of an exchange starts with a count of at most 20,
\* whether the run before it ended at the triage agent or at a specialist.
C13_CapCheckedBeforeInvocation ==
    [][ invocations' = invocations + 1 => (pc = "run" /\ Len(inputs) <= 20) ]_vars

\* C13 witness: the loop went through the safety check with a count of exactly 20
\* after a run that ended at a specialist, and has started the next invocation.
C13_Witness ==
    /\ pc = "check"
    /\ invocations = 20
    /\ Len(inputs) = 21
    /\ agent \in Specialists

\* C14: when the run ends at the triage agent with an output that is no
\* TriageDecision, or whose inspection raises, the next step of main is the
\* prompt (no exception leaves the loop, no further invocation), and at the
\* prompt main can take the next user message.
C14_MalformedDecisionEndsGracefully ==
    /\ [][ ( /\ pc = "check"
             /\ agent = "triage_agent"
             /\ final_output \in {UnexpectedOutput, FaultyOutput} )
           => ( /\ pc' = "prompt"
                /\ invocations' = invocations ) ]_vars
    /\ [](pc = "prompt" => ENABLED NextMessage)

\* C14 witness: an exchange ended on an output that is no TriageDecision, after a
\* handoff to a specialist and back.
C14_Witness ==
    /\ pc = "prompt"
    /\ final_output = UnexpectedOutput
    /\ printed = MsgUnexpected
    /\ invocations >= 2

\* the positions of a run's path at which a specialist receives a handoff
SpecialistHandoffs(path) == {i \in 2..Len(path) : path[i] \in Specialists}

\* C15 (as claimed): in one turn of the loop of main (one Runner.run) at most
\* one handoff to a specialist occurs.
C15_OneSpecialistHandoffPerLoopTurn == Cardinality(SpecialistHandoffs(handoffPath)) <= 1

\* C15 (amended): inside a run every handoff a specialist makes goes to the
\* triage agent and every handoff the triage agent makes goes to one specialist,
\* so between two specialists of a run's path the triage agent always stands;
\* and a run that returns started at the agent the run before ended at.
C15_SpecialistsOnlyViaCoordinator ==
    /\ [](\A i \in 1..(Len(handoffPath) - 1) :
            /\ handoffPath[i] \in Specialists => handoffPath[i + 1] = "triage_agent"
            /\ handoffPath[i] = "triage_agent" => handoffPath[i + 1] \in Specialists)
    /\ [][ (invocations' = invocations + 1 /\ pc' = "check")
           => ( /\ handoffPath'[1] = agent
                /\ handoffPath'[Len(handoffPath')] = agent' ) ]_vars

\* C15 witness: one run went to two different specialists, through the triage
\* agent in between.
C15_Witness ==
    /\ pc = "check"
    /\ Len(handoffPath) = 4
    /\ handoffPath[2] \in Specialists
    /\ handoffPath[4] \in Specialists \ {handoffPath[2]}

\* C16: every invocation of an exchange that returns leaves a history that is the history
\* it was given followed by at least one new item, no other step of the
\* exchange touches the history, the first invocation of every exchange is
\* given the user message alone, and every exchange starts at the triage agent.
C16_HistoryOnlyGrows ==
    /\ [](pc = "run" /\ invocations = 0
            => inputs = <<UserItem(msg)>> /\ agent = "triage_agent")
    /\ [][ /\ (invocations' = invocations + 1 /\ pc' = "check")
              => ( /\ Len(inputs') > Len(inputs)
                   /\ SubSeq(inputs', 1, Len(inputs)) = inputs )
           /\ (pc' # "check" /\ pc # "prompt") => inputs' = inputs
           /\ (pc = "prompt" /\ pc' = "run")
              => ( /\ invocations' = 0
                   /\ inputs' = <<UserItem(msg')>>
                   /\ agent' = "triage_agent" ) ]_vars

\* C16 witness: the third invocation of an exchange returned; the history still
\* starts with the user message and holds an item of each invocation.
C16_Witness ==
    /\ pc = "check"
    /\ invocations = 3
    /\ Len(inputs) >= 4
    /\ inputs[1] = UserItem(msg)

\* C17: in both programs the triage agent's handoffs are exactly the three
\* specialists and each specialist's handoffs are exactly the triage agent, in
\* every state from the return of the construction on, and no step changes them.
C17_HandoffSetsWiredAndFixed ==
    /\ [](prog = "playbook" =>
            /\ DOMAIN handoffs = {"triage_agent", "french_agent", "spanish_agent", "german_agent"}
            /\ handoffs["triage_agent"] = {"french_agent", "spanish_agent", "german_agent"}
            /\ \A a \in {"french_agent", "spanish_agent", "german_agent"} :
                 handoffs[a] = {"triage_agent"})
    /\ [](prog = "automotive" =>
            /\ DOMAIN handoffs = {"Automotive Triage Agent", "Repair Orders Specialist",
                                  "Parts Specialist", "Payment Specialist"}
            /\ handoffs["Automotive Triage Agent"] =
                 {"Repair Orders Specialist", "Parts Specialist", "Payment Specialist"}
            /\ \A a \in {"Repair Orders Specialist", "Parts Specialist", "Payment Specialist"} :
                 handoffs[a] = {"Automotive Triage Agent"})
    /\ [][handoffs' = handoffs]_vars

\* C17 witness: the automotive run was handed to a specialist and back, using
\* the handoffs of both.
C17_Witness ==
    /\ prog = "automotive"
    /\ wfPc = "running"
    /\ wfAgent = "Automotive Triage Agent"
    /\ wfTurns >= 2
    /\ invoked["get_part_by_number"] # NoResponse

----------------------------------------------------------------------------
(* Claims about the domain tools *)

\* the fields every response is to carry, and the one its outcome adds
EnvelopeKeys(ok) ==
    {"success", "tool", "message", "mcp_server"} \cup (IF ok THEN {"result"} ELSE {"error"})

\* C18: every response a domain tool has given, success or failure, carries
\* success, tool, message and mcp_server, and result when success is true,
\* error when it is false.
C18_UniformEnvelope ==
    prog = "automotive" =>
        \A t \in DomainTools :
            invoked[t] # NoResponse => EnvelopeKeys(invoked[t].success) \subseteq invoked[t].keys

----------------------------------------------------------------------------
(* Claims about requests that are not compound *)

\* character d is the lower-case letter c or its capital
SameLetter(c, d) ==
    \/ d = c
    \/ \E i \in 1..Len(LowerCase) : LowerCase[i] = c /\ UpperCase[i] = d

\* the lower-case phrase stands somewhere in the text, capitals or not
HasPhrase(phrase, text) ==
    \E o \in 0..(Len(text) - Len(phrase)) :
        \A k \in 1..Len(phrase) : SameLetter(phrase[k], text[o + k])

\* C20: for a query that does not hold both "add part" and "payment link",
\* whatever the case of its letters, the builder returns a plan with exactly one
\* step, without dependencies and with status pending, and execution_order is
\* that step's id alone.
C20_DefaultSingleStep ==
    ( /\ BuiltPlan
      /\ ~(HasPhrase(StrAddPart, plan.original_query)
            /\ HasPhrase(StrPaymentLink, plan.original_query)) )
    => /\ plan.original_query = query
       /\ Len(plan.steps) = 1
       /\ plan.steps[1].dependencies = <<>>
       /\ plan.steps[1].status = "pending"
       /\ plan.execution_order = <<plan.steps[1].step_id>>

\* C20 witness: the builder has returned its plan for a query that holds
\* "Add part" and no payment link.
C20_Witness ==
    /\ wfPc = "analyzed"
    /\ HasPhrase(StrAddPart, query)
    /\ ~HasPhrase(StrPaymentLink, query)
    /\ plan # NoPlan
    /\ plan.request_id = "REQ_002"

----------------------------------------------------------------------------
(* Claims about parse_symbol_from_query *)

\* What each rule accepts, said over the upper-cased text u without a search
\* order: a symbol is a run of symbol characters that cannot be extended to the
\* right, an exchange is one of the four names, and the gaps are whitespace.
IsExchange(x) == x \in {ExchangeNames[n] : n \in 1..Len(ExchangeNames)}
SymbolRun(u, a, b) ==
    /\ 1 <= a /\ a <= b /\ b <= Len(u)
    /\ \A k \in a..b : u[k] \in SymbolChars
    /\ (b = Len(u) \/ u[b + 1] \notin SymbolChars)
Gap(u, a, b) ==
    /\ 1 <= a /\ a < b /\ b <= Len(u) + 1
    /\ \A k \in a..(b - 1) : u[k] \in Whitespace

\* r is an EXCHANGE:SYMBOL reading of u
Rule1(u, r) ==
    /\ IsExchange(r.exchange)
    /\ \E i \in 1..Len(u) :
         /\ LitAt(u, i, r.exchange \o <<":">> \o r.symbol)
         /\ SymbolRun(u, i + 4, i + 3 + Len(r.symbol))

\* the keyword ON, AT or TRADED AT stands at c and ends before d
Keyword(u, c, d) ==
    \/ LitAt(u, c, StrON) /\ d = c + 2
    \/ LitAt(u, c, StrAT) /\ d = c + 2
    \/ /\ LitAt(u, c, StrTRADED)
       /\ LitAt(u, d - 2, StrAT)
       /\ Gap(u, c + 6, d - 2)

\* r is a "SYMBOL on|at|traded at EXCHANGE" reading of u
Rule2(u, r) ==
    /\ IsExchange(r.exchange)
    /\ \E a \in 1..Len(u) :
         /\ LitAt(u, a, r.symbol)
         /\ SymbolRun(u, a, a + Len(r.symbol) - 1)
         /\ \E c \in (a + Len(r.symbol) + 1)..Len(u) :
              /\ Gap(u, a + Len(r.symbol), c)
              /\ \E d \in (c + 2)..Len(u) :
                   /\ Keyword(u, c, d)
                   /\ \E x \in (d + 1)..Len(u) :
                        Gap(u, d, x) /\ LitAt(u, x, r.exchange)

\* r is an "EXCHANGE SYMBOL" reading of u
Rule3(u, r) ==
    /\ IsExchange(r.exchange)
    /\ \E i \in 1..Len(u) :
         /\ LitAt(u, i, r.exchange)
         /\ \E k \in (i + 4)..Len(u) :
              /\ Gap(u, i + 3, k)
              /\ LitAt(u, k, r.symbol)
              /\ SymbolRun(u, k, k + Len(r.symbol) - 1)

\* r is the first symbol of the table that stands in u, with exchange NSE
Rule4(u, r) ==
    /\ r.exchange = StrNSE
    /\ \E n \in 1..Len(known_symbols) :
         /\ r.symbol = known_symbols[n]
         /\ Contains(known_symbols[n], u)
         /\ \A m \in 1..(n - 1) : ~Contains(known_symbols[m], u)

\* some reading of u under rule n exists: symbols are runs of u, exchanges names
Readings(u) ==
    {[symbol |-> SubSeq(u, a, b), exchange |-> x] :
        <<a, b>> \in {t \in (1..Len(u)) \X (1..Len(u)) : SymbolRun(u, t[1], t[2])},
        x \in {ExchangeNames[n] : n \in 1..Len(ExchangeNames)}}
Applies(n, u) ==
    CASE n = 1 -> \E r \in Readings(u) : Rule1(u, r)
      [] n = 2 -> \E r \in Readings(u) : Rule2(u, r)
      [] n = 3 -> \E r \in Readings(u) : Rule3(u, r)
      [] n = 4 -> \E k \in 1..Len(known_symbols) : Contains(known_symbols[k], u)

Follows(n, u, r) ==
    CASE n = 1 -> Rule1(u, r)
      [] n = 2 -> Rule2(u, r)
      [] n = 3 -> Rule3(u, r)
      [] n = 4 -> Rule4(u, r)

\* C19: the result of parse_symbol_from_query follows the first of the four
\* rules that applies to the upper-cased query (EXCHANGE:SYMBOL, then SYMBOL
\* on|at|traded at EXCHANGE, then EXCHANGE SYMBOL, then the table of known
\* symbols with NSE), and is (None, None) when none applies; the four example
\* queries give (RELIANCE, NSE), (RELIANCE, BSE), (TCS, NSE) and (None, None).
C19_FirstMatchingRule ==
    (prog = "trading" /\ tPc = "parsed") =>
        LET u == Upper(user_query) IN
        /\ \A n \in 1..4 :
             (Applies(n, u) /\ \A m \in 1..(n - 1) : ~Applies(m, u)) => Follows(n, u, parsed)
        /\ (\A n \in 1..4 : ~Applies(n, u)) => parsed = [symbol |-> <<"None">>, exchange |-> <<"None">>]
        /\ user_query = QueryNseReliance
             => parsed = [symbol |-> <<"R", "E", "L", "I", "A", "N", "C", "E">>, exchange |-> <<"N", "S", "E">>]
        /\ user_query = QueryRelianceOnBse
             => parsed = [symbol |-> <<"R", "E", "L", "I", "A", "N", "C", "E">>, exchange |-> <<"B", "S", "E">>]
        /\ user_query = QueryAboutTcs
             => parsed = [symbol |-> <<"T", "C", "S">>, exchange |-> <<"N", "S", "E">>]
        /\ user_query = QueryUnrelated
             => parsed = [symbol |-> <<"None">>, exchange |-> <<"None">>]

\* C19 witness: a query that the second and the third rule both read, each its
\* own way, has been parsed.
C19_Witness ==
    /\ tPc = "parsed"
    /\ ~Applies(1, Upper(user_query))
    /\ Applies(2, Upper(user_query))
    /\ \E r \in Readings(Upper(user_query)) :
         Rule3(Upper(user_query), r) /\ ~Rule2(Upper(user_query), r)
    /\ Rule2(Upper(user_query), parsed)

----------------------------------------------------------------------------
(* Claims about create_payment_link *)

\* C21: the response of create_payment_link has success true exactly when the
\* email matches the pattern and 0 < amount <= 999999999; an email that does
\* not match gives "Invalid Email" whatever the amount, an email that matches
\* with an amount out of range gives "Invalid Amount", and a failure has no
\* result (the only field that holds the payment link).
C21_PaymentLinkValidation ==
    LET r == invoked["create_payment_link"]
        inRange == 0 < payArgs.amount /\ payArgs.amount <= 999999999
        wellFormed == EmailMatches(payArgs.customer_email)
    IN  (prog = "automotive" /\ r # NoResponse) =>
            /\ r.success <=> (wellFormed /\ inRange)
            /\ ~wellFormed => r.error = "Invalid Email"
            /\ (wellFormed /\ ~inRange) => r.error = "Invalid Amount"
            /\ ~r.success => "result" \notin r.keys
            /\ r.success => "result" \in r.keys

\* C21 witness: create_payment_link was called with an email that does not
\* match and an amount above the range, and answered "Invalid Email".
C21_Witness ==
    /\ prog = "automotive"
    /\ invoked["create_payment_link"] # NoResponse
    /\ ~EmailMatches(payArgs.customer_email)
    /\ payArgs.amount > 999999999
    /\ invoked["create_payment_link"].error = "Invalid Email"

----------------------------------------------------------------------------
(* Claims about _get_user_profile *)

\* the text holds none of login, authenticate, session, capitals or not
NoLoginKeyword(text) ==
    /\ ~HasPhrase(<<"l", "o", "g", "i", "n">>, text)
    /\ ~HasPhrase(<<"a", "u", "t", "h", "e", "n", "t", "i", "c", "a", "t", "e">>, text)
    /\ ~HasPhrase(<<"s", "e", "s", "s", "i", "o", "n">>, text)

\* C23: _get_user_profile makes at most 3 profile runs and at most one login
\* run per attempt; it returns True exactly at the first profile run whose
\* output holds none of the keywords; a run that raises uses up its attempt and
\* the function goes on; it returns False only when 3 attempts are used up; and
\* it always returns.
C23_ProfileAttemptsBounded ==
    /\ [](profileRuns <= 3 /\ logins <= 1)
    /\ [][ (profileRuns' = profileRuns + 1 /\ output' # <<>> /\ NoLoginKeyword(output'))
           => authResult' = "True" ]_vars
    /\ [][ (authResult = "pending" /\ authResult' = "True")
           => (profileRuns' = profileRuns + 1 /\ output' # <<>> /\ NoLoginKeyword(output')) ]_vars
    /\ [][ (authResult = "pending" /\ authResult' = "False")
           => (attempt = 3 /\ profileRuns = 3) ]_vars
    /\ [][ (ProfileRaises \/ LoginRaises)
           => (attempt' = attempt + 1 /\ authResult' = "pending" /\ tPc' = "profile") ]_vars
    /\ [](authResult = "pending" => <>(authResult \in {"True", "False"}))

\* C23 witness: the function returned False after three profile runs, the last
\* of which asked for the login and was followed by one login run.
C23_Witness ==
    /\ authResult = "False"
    /\ profileRuns = 3
    /\ logins = 1
    /\ output # <<>>

----------------------------------------------------------------------------
(* Claims about stream_stock_quotes *)

\* C22: stream_stock_quotes starts a quote retrieval only while the clock is
\* before end_time and returns once it is not; it returns for no other reason,
\* whatever a retrieval gives or raises; and price_history never holds more
\* entries than quote_count, an entry being added only in a pass that counted
\* its quote.
C22_StreamStopsAtWindowEnd ==
    /\ [][ retrievals' = retrievals + 1 => now < end_time ]_vars
    /\ [](tPc = "streamed" => now >= end_time)
    /\ [][ (tPc \in {"loop", "sleeping"} /\ tPc' \notin {"loop", "sleeping"})
           => (tPc' = "streamed" /\ now >= end_time) ]_vars
    /\ [](Len(price_history) <= quote_count)
    /\ [][ Len(price_history') > Len(price_history)
           => ( /\ quote_count' = quote_count + 1
                /\ Len(price_history') = Len(price_history) + 1 ) ]_vars
    /\ [](tPc \in {"loop", "sleeping"} => <>(tPc = "streamed"))

\* C22 witness: the session ended past its window, after passes that stored a
\* quote, that counted one without storing it, and that got nothing.
C22_Witness ==
    /\ tPc = "streamed"
    /\ now > end_time
    /\ Len(price_history) >= 1
    /\ quote_count > Len(price_history)
    /\ retrievals > quote_count

====
